---- MODULE Spec2Model ----
(***************************************************************************)
(* The todo list of Todo-React in its two variants.                        *)
(*                                                                         *)
(*  local  : App (src/unnamed/part_002) keeps `items` in React state and   *)
(*           mirrors it into localStorage under the key "todo".            *)
(*  remote : Home (src/unnamed/part_004) keeps `items` in React state and  *)
(*           replaces it by whatever the REST backend answers              *)
(*           (src/unnamed/part_003, src/frontend/api/api.mjs).             *)
(*                                                                         *)
(* One behaviour follows one variant (chosen in Init).                     *)
(***************************************************************************)
EXTENDS Integers, Sequences, FiniteSets, Bags, TLC

VARIABLES
    variant,        \* "local" | "remote": which application runs
    phase,          \* "init" | "mounted" | "crashed": the root component
    items,          \* the `items` React state (a JS value), what is displayed
    input,          \* the text the AddItemForm input element holds after a submit
    localStorage,   \* the browser's key-value storage (local variant)
    server,         \* the backend's collection (remote variant)
    nextId,         \* the backend's next fresh id (remote variant)
    inflight,       \* the bag of HTTP requests issued and not yet settled (remote)
    last,           \* history: the step just taken, with the state it started from
    adds,           \* history: the contents of the current run of completed adds
    gone,           \* history: the ids the backend has removed (remote variant)
    ops             \* history: the submits and clicks so far

vars == <<variant, phase, items, input, localStorage, server, nextId, inflight,
          last, adds, gone, ops>>

---------------------------------------------------------------------------
(* Bounds of the model *)

MaxOps == 3         \* submits and clicks of one run

(* No run holds more items than this. *)
LenLimit == MaxOps + 2

(* Texts a user types into the form; "" is the empty input. *)
Contents == {"a", "b"}

---------------------------------------------------------------------------
(* JavaScript values: arrays of items, null, and a non-array object (an    *)
(* error body such as {"error": ...}).                                     *)

Arr(s) == [type |-> "array", val |-> s]
JsNull == [type |-> "null", val |-> <<>>]
JsObject == [type |-> "object", val |-> <<>>]

IsArray(v) == v.type = "array"

(* JSON text is a sequence of tokens; an item object is one token. *)
Tok(c) == [t |-> c]
ObjTok(item) == [t |-> "obj", obj |-> item]

RECURSIVE JoinItems(_)
JoinItems(s) ==
    IF Len(s) = 0 THEN <<>>
    ELSE IF Len(s) = 1 THEN <<ObjTok(s[1])>>
    ELSE <<ObjTok(s[1]), Tok(",")>> \o JoinItems(Tail(s))

(* JSON.stringify *)
JSONstringify(v) ==
    IF v.type = "array" THEN <<Tok("[")>> \o JoinItems(v.val) \o <<Tok("]")>>
    ELSE IF v.type = "null" THEN <<Tok("null")>>
    ELSE <<Tok("{"), Tok("}")>>

SyntaxError == [ok |-> FALSE, value |-> JsNull]
Parsed(v) == [ok |-> TRUE, value |-> v]

(* The elements of an array text from position i, an object expected there. *)
RECURSIVE ParseElements(_, _, _)
ParseElements(text, i, acc) ==
    IF i + 1 > Len(text) \/ text[i].t # "obj" THEN SyntaxError
    ELSE LET acc2 == Append(acc, text[i].obj) IN
         IF text[i + 1].t = "]"
         THEN (IF i + 1 = Len(text) THEN Parsed(Arr(acc2)) ELSE SyntaxError)
         ELSE IF text[i + 1].t = ","
         THEN ParseElements(text, i + 2, acc2)
         ELSE SyntaxError

(* JSON.parse: the value of a text, or a SyntaxError *)
JSONparse(text) ==
    IF text = <<Tok("null")>> THEN Parsed(JsNull)
    ELSE IF text = <<Tok("{"), Tok("}")>> THEN Parsed(JsObject)
    ELSE IF text = <<Tok("["), Tok("]")>> THEN Parsed(Arr(<<>>))
    ELSE IF Len(text) >= 3 /\ text[1].t = "[" THEN ParseElements(text, 2, <<>>)
    ELSE SyntaxError

---------------------------------------------------------------------------
(* localStorage: each key is absent or holds a text *)

ITEMS_STORAGE_KEY == "todo"
Keys == {"todo", "other"}

Absent == [present |-> FALSE, text |-> <<>>]
Stored(text) == [present |-> TRUE, text |-> text]

(* The storage holds its data and counts the setItem calls of the current   *)
(* step (each step starts counting at 0).                                  *)
NewStep(store) == [store EXCEPT !.setItemCalls = 0]

getItem(store, key) == store.data[key]
setItem(store, key, text) ==
    [data |-> [store.data EXCEPT ![key] = Stored(text)],
     setItemCalls |-> store.setItemCalls + 1]

(* A JS string is falsy exactly when it is empty; null is falsy. *)
Truthy(entry) == entry.present /\ entry.text # <<>>

(* loadItems: the parsed value, [] for a falsy raw value; JSON.parse may throw *)
loadItems(store) ==
    LET itemDataRaw == getItem(store, ITEMS_STORAGE_KEY) IN
    IF Truthy(itemDataRaw)
    THEN LET p == JSONparse(itemDataRaw.text) IN
         [threw |-> ~p.ok, value |-> p.value]
    ELSE [threw |-> FALSE, value |-> Arr(<<>>)]

(* saveItems writing under another key than the one loadItems reads *)
saveItemsOtherKey(store, v) == setItem(store, "other", JSONstringify(v))

(* saveItems *)
saveItems(store, v) == setItem(store, ITEMS_STORAGE_KEY, JSONstringify(v))

---------------------------------------------------------------------------
(* App: createItem and deleteItem (local variant) *)

Min(a, b) == IF a < b THEN a ELSE b
Max(a, b) == IF a > b THEN a ELSE b

(* Array.prototype.splice(start, deleteCount) on a 0-based array *)
Splice(s, start, deleteCount) ==
    LET len == Len(s)
        relStart == IF start < 0 THEN Max(len + start, 0) ELSE Min(start, len)
        count == Min(Max(deleteCount, 0), len - relStart)
    IN  SubSeq(s, 1, relStart) \o SubSeq(s, relStart + count + 1, len)

(* Ids counted from one: `item-${items.length + 1}` *)
ItemIdFromOne(n) == "item-" \o ToString(n + 1)

ItemId(n) == "item-" \o ToString(n)

(* createItem putting the new item first: [newItem, ...items] *)
createItemFirst(cur, content) ==
    LET newItem == [id |-> ItemId(Len(cur.val)), content |-> content] IN
    Arr(<<newItem>> \o cur.val)

(* The arrays of one run of a handler, by reference: at ItemsRef the array  *)
(* `items` of the render the handler belongs to; an array literal or a      *)
(* spread allocates the next reference.                                     *)
ItemsRef == 1
HandlerHeap(cur) == <<cur.val>>
Alloc(heap, arr) == [heap |-> Append(heap, arr), ref |-> Len(heap) + 1]

(* The run of createItem: [...items, newItem] is a new array; `ret` is the  *)
(* reference the updater returns.                                           *)
createItemRun(cur, content) ==
    LET newItem == [id |-> ItemId(Len(cur.val)), content |-> content]
        heap == HandlerHeap(cur)
        spread == Alloc(heap, Append(heap[ItemsRef], newItem))
    IN  [heap |-> spread.heap, ret |-> spread.ref]

(* createItem: the collection the updater passed to setItems returns *)
createItem(cur, content) ==
    LET run == createItemRun(cur, content) IN
    Arr(run.heap[run.ret])

(* deleteItem splicing one position too far: splice(itemIdx + 1, 1) *)
deleteItemNext(cur, itemIdx) ==
    LET newItems == cur.val IN
    Arr(Splice(newItems, itemIdx + 1, 1))

(* deleteItem removing the item and its successor: splice(itemIdx, 2) *)
deleteItemTwo(cur, itemIdx) ==
    LET newItems == cur.val IN
    Arr(Splice(newItems, itemIdx, 2))

(* deleteItem without the copy: newItems = items, spliced in place *)
deleteItemRunInPlace(cur, itemIdx) ==
    LET heap == HandlerHeap(cur)
        newItems == ItemsRef
        spliced == [heap EXCEPT ![newItems] = Splice(heap[newItems], itemIdx, 1)]
    IN  [heap |-> spliced, ret |-> newItems]

(* The run of deleteItem: newItems = [...items] is a new array, splice      *)
(* changes the array it is called on; `ret` is the reference returned.      *)
deleteItemRun(cur, itemIdx) ==
    LET heap == HandlerHeap(cur)
        spread == Alloc(heap, heap[ItemsRef])
        newItems == spread.ref
        spliced == [spread.heap EXCEPT ![newItems] = Splice(spread.heap[newItems], itemIdx, 1)]
    IN  [heap |-> spliced, ret |-> newItems]

(* deleteItem: the collection the updater passed to setItems returns *)
deleteItem(cur, itemIdx) ==
    LET run == deleteItemRun(cur, itemIdx) IN
    Arr(run.heap[run.ret])

(* The array `items` of the render a handler belongs to, as the handler's   *)
(* run has left it.                                                         *)
Leaves(run) == Arr(run.heap[ItemsRef])

---------------------------------------------------------------------------
(* History records: the step just taken. `before` is the collection the    *)
(* step started from: in the local variant the array `items` of the render  *)
(* the handler belongs to, as the handler has left it.                      *)

NoReq == [method |-> "", url |-> [path |-> "", id |-> -1],
          data |-> [has |-> FALSE, content |-> ""],
          resp |-> [type |-> "pending", val |-> <<>>], matched |-> TRUE]

Ev(op, content, arg, before, err) ==
    [op |-> op, content |-> content, arg |-> arg, before |-> before,
     err |-> err, req |-> NoReq, nreq |-> 0]

---------------------------------------------------------------------------
(* The local variant: App *)

(* What a previous session, or anything else, left in localStorage. *)
SavedCollections ==
    { Arr(<<>>),
      Arr(<<[id |-> ItemId(0), content |-> "a"]>>),
      Arr(<<[id |-> ItemId(0), content |-> "a"], [id |-> ItemId(1), content |-> "b"]>>) }

InitialEntries ==
    {Absent, Stored(<<>>), Stored(<<Tok("[")>>), Stored(<<Tok("null")>>)}
    \cup {Stored(JSONstringify(c)) : c \in SavedCollections}

(* What Items renders: the placeholder, or one Item per element. *)
Placeholder == [tag |-> "h2", text |-> "No items added yet, try adding some."]

(* An Item element: its key, the item it shows and the argument its delete  *)
(* icon passes to deleteItem.                                               *)
ItemElement(key, item, arg) ==
    [tag |-> "Item", key |-> key, item |-> item, text |-> item.content, arg |-> arg]

(* Items that maps whatever the length is: no placeholder *)
ItemsAlwaysMapped(v) ==
    [i \in 1 .. Len(v.val) |->
       ItemElement("item-idx-" \o ToString(i - 1), v.val[i], i - 1)]

(* Items of the local variant: deleteThisItem = () => deleteItem(idx) *)
Items(v) ==
    IF Len(v.val) = 0
    THEN <<Placeholder>>
    ELSE [i \in 1 .. Len(v.val) |->
            ItemElement("item-idx-" \o ToString(i - 1), v.val[i], i - 1)]

(* The effect of useEffect(() => saveItems(items), [items]) after a render. *)
SaveEffect(store, v) == saveItems(store, v)

(* Items reads items.length and maps over the array: a render of anything   *)
(* that is not an array throws a TypeError.                                 *)
RenderThrows(v) == ~IsArray(v)

(* App starting from the empty collection: useState([]), then the save     *)
(* effect.                                                                  *)
MountEmpty ==
    /\ variant = "local" /\ phase = "init"
    /\ phase' = "mounted"
    /\ items' = Arr(<<>>)
    /\ localStorage' = SaveEffect(NewStep(localStorage), Arr(<<>>))
    /\ last' = Ev("mount", "", -1, items, "")
    /\ UNCHANGED <<variant, input, server, nextId, inflight, adds, gone, ops>>

(* First render of App: useState(loadItems()), then the save effect. *)
Mount ==
    /\ variant = "local" /\ phase = "init"
    /\ LET r == loadItems(NewStep(localStorage)) IN
       IF r.threw
       THEN /\ phase' = "crashed"
            /\ items' = items
            /\ localStorage' = NewStep(localStorage)
            /\ last' = Ev("mount", "", -1, items, "SyntaxError")
       ELSE IF RenderThrows(r.value)
       THEN /\ phase' = "crashed"
            /\ items' = r.value
            /\ localStorage' = NewStep(localStorage)
            /\ last' = Ev("mount", "", -1, items, "TypeError")
       ELSE /\ phase' = "mounted"
            /\ items' = r.value
            /\ localStorage' = SaveEffect(NewStep(localStorage), r.value)
            /\ last' = Ev("mount", "", -1, items, "")
    /\ UNCHANGED <<variant, input, server, nextId, inflight, adds, gone, ops>>

(* A handler that saves by itself as well: saveItems next to setItems, and  *)
(* the save effect after the re-render.                                     *)
CommitSavingTwice(newItems) ==
    /\ items' = newItems
    /\ localStorage' = SaveEffect(saveItems(NewStep(localStorage), newItems), newItems)

(* setItems(updater), the re-render it causes and the save effect after it. *)
(* (The re-render evaluates loadItems() again and drops the result; the     *)
(* text it parses is the one the previous save effect wrote.)               *)
Commit(newItems) ==
    /\ items' = newItems
    /\ localStorage' = SaveEffect(NewStep(localStorage), newItems)

(* The `required` attribute of the input: the browser does not submit the   *)
(* form while the input is empty.                                           *)
Required(text) == text # ""

(* AddItemForm.handleSubmit of the local variant, the input element holding *)
(* `content` when the form is submitted: createItem, then reset.            *)
Submit(content) ==
    /\ variant = "local" /\ phase = "mounted"
    /\ Required(content)
    /\ ops < MaxOps
    /\ Commit(createItem(items, content))
    /\ input' = ""
    /\ last' = Ev("create", content, -1, Leaves(createItemRun(items, content)), "")
    /\ adds' = Append(adds, content)
    /\ ops' = ops + 1
    /\ UNCHANGED <<variant, phase, server, nextId, inflight, gone>>

(* A click on the delete icon of a rendered Item whose deleteThisItem is    *)
(* () => deleteItem(idx).                                                   *)
Click(idx) ==
    /\ variant = "local" /\ phase = "mounted"
    /\ \E i \in 1 .. Len(Items(items)) :
         Items(items)[i].tag = "Item" /\ Items(items)[i].arg = idx
    /\ ops < MaxOps
    /\ Commit(deleteItem(items, idx))
    /\ last' = Ev("delete", "", idx, Leaves(deleteItemRun(items, idx)), "")
    /\ adds' = <<>>
    /\ ops' = ops + 1
    /\ UNCHANGED <<variant, phase, input, server, nextId, inflight, gone>>

(* createItem and deleteItem called with any argument, not through the form *)
(* and the rendered list.                                                   *)
CallCreateItem(content) ==
    /\ variant = "local" /\ phase = "mounted"
    /\ ops < MaxOps
    /\ Commit(createItem(items, content))
    /\ last' = Ev("create", content, -1, Leaves(createItemRun(items, content)), "")
    /\ adds' = Append(adds, content)
    /\ ops' = ops + 1
    /\ UNCHANGED <<variant, phase, input, server, nextId, inflight, gone>>

CallDeleteItem(itemIdx) ==
    /\ variant = "local" /\ phase = "mounted"
    /\ ops < MaxOps
    /\ Commit(deleteItem(items, itemIdx))
    /\ last' = Ev("delete", "", itemIdx, Leaves(deleteItemRun(items, itemIdx)), "")
    /\ adds' = <<>>
    /\ ops' = ops + 1
    /\ UNCHANGED <<variant, phase, input, server, nextId, inflight, gone>>

---------------------------------------------------------------------------
(* The remote variant: the REST client *)

Pending == [type |-> "pending", val |-> <<>>]
NoId == -1
NoData == [has |-> FALSE, content |-> ""]
ContentData(content) == [has |-> TRUE, content |-> content]

(* send(method, url, data): the request fetch issues *)
send(method, path, id, data) ==
    [method |-> method, url |-> [path |-> path, id |-> id], data |-> data,
     resp |-> Pending, matched |-> TRUE]

addItem(content) == send("POST", "/api/items/", NoId, ContentData(content))
apiDeleteItem(id) == send("DELETE", "/api/items/", id, NoData)
getItems == send("GET", "/api/items/", NoId, NoData)

(* Item's onClick: deleteItem(item._id); the field `id` of a remote item is  *)
(* the backend's `_id`.                                                     *)
ItemDeleteArg(item) == item.id

(* Items of the remote variant: key={item._id}, deleteItem passed through  *)
(* to Item.                                                                 *)
RItems(v) ==
    IF Len(v.val) = 0
    THEN <<Placeholder>>
    ELSE [i \in 1 .. Len(v.val) |->
            ItemElement(v.val[i].id, v.val[i], ItemDeleteArg(v.val[i]))]

HasId(s, id) == \E i \in 1 .. Len(s) : s[i].id = id

RECURSIVE WithoutId(_, _)
WithoutId(s, id) ==
    IF s = <<>> THEN <<>>
    ELSE IF Head(s).id = id THEN WithoutId(Tail(s), id)
    ELSE <<Head(s)>> \o WithoutId(Tail(s), id)

(* The backend's handling of a request: its new collection, its next id and *)
(* the body it answers.                                                     *)
Handle(srv, nid, req) ==
    IF req.method = "POST"
    THEN LET new == Append(srv, [id |-> nid, content |-> req.data.content]) IN
         [server |-> new, nextId |-> nid + 1, body |-> Arr(new)]
    ELSE IF req.method = "DELETE"
    THEN LET new == WithoutId(srv, req.url.id) IN
         [server |-> new, nextId |-> nid, body |-> Arr(new)]
    ELSE [server |-> srv, nextId |-> nid, body |-> Arr(srv)]

NoRequests == EmptyBag
Outstanding == BagCardinality(inflight)
Issue(req) == inflight (+) SetToBag({req})
Settle(req) == inflight (-) SetToBag({req})

EvR(op, content, arg, before, err, req) ==
    [op |-> op, content |-> content, arg |-> arg, before |-> before,
     err |-> err, req |-> req, nreq |-> Outstanding]

(* First render of Home: useState([]), then the effect getItems().then(setItems) *)
RMount ==
    /\ variant = "remote" /\ phase = "init"
    /\ phase' = "mounted"
    /\ items' = Arr(<<>>)
    /\ inflight' = Issue(getItems)
    /\ last' = EvR("mount", "", -1, items, "", getItems)
    /\ UNCHANGED <<variant, input, localStorage, server, nextId, adds, gone, ops>>

(* A form that shows the new item before the backend has answered: an      *)
(* optimistic update next to the request.                                   *)
RSubmitOptimistic(content) ==
    /\ variant = "remote" /\ phase = "mounted"
    /\ Required(content)
    /\ ops < MaxOps
    /\ input' = content
    /\ items' = IF IsArray(items) THEN createItem(items, content) ELSE items
    /\ inflight' = Issue(addItem(content))
    /\ last' = EvR("create", content, -1, items, "", addItem(content))
    /\ adds' = IF inflight = NoRequests THEN Append(adds, content) ELSE <<>>
    /\ ops' = ops + 1
    /\ UNCHANGED <<variant, phase, localStorage, server, nextId, gone>>

(* AddItemForm.handleSubmit, the input element holding `content` when the   *)
(* form is submitted: addItem(content).then(setItems).then(reset)           *)
RSubmit(content) ==
    /\ variant = "remote" /\ phase = "mounted"
    /\ Required(content)
    /\ ops < MaxOps
    /\ input' = content
    /\ inflight' = Issue(addItem(content))
    /\ last' = EvR("create", content, -1, items, "", addItem(content))
    /\ adds' = IF inflight = NoRequests THEN Append(adds, content) ELSE <<>>
    /\ ops' = ops + 1
    /\ UNCHANGED <<variant, phase, items, localStorage, server, nextId, gone>>

(* A click on the delete icon of the Item rendered at position idx:         *)
(* deleteItem(item._id).then(setItems)                                      *)
RClick(idx) ==
    /\ variant = "remote" /\ phase = "mounted"
    /\ idx \in 0 .. Len(RItems(items)) - 1
    /\ RItems(items)[idx + 1].tag = "Item"
    /\ ops < MaxOps
    /\ LET req == apiDeleteItem(RItems(items)[idx + 1].arg) IN
         /\ inflight' = Issue(req)
         /\ last' = EvR("delete", "", idx, items, "", req)
    /\ adds' = <<>>
    /\ ops' = ops + 1
    /\ UNCHANGED <<variant, phase, items, input, localStorage, server, nextId, gone>>

(* The backend handles a request: as the REST table says, or with an error *)
(* body that leaves its collection as it was.                               *)
ServerProcess(req) ==
    /\ BagIn(req, inflight)
    /\ req.resp = Pending
    /\ LET found == req.method # "DELETE" \/ HasId(server, req.url.id) IN
       \/ LET h == Handle(server, nextId, req) IN
            /\ server' = h.server
            /\ nextId' = h.nextId
            /\ inflight' = Settle(req) (+)
                             SetToBag({[req EXCEPT !.resp = h.body, !.matched = found]})
            /\ gone' = IF req.method = "DELETE" /\ found
                       THEN gone \cup {req.url.id} ELSE gone
            /\ last' = EvR("process", req.data.content, req.url.id, items, "", req)
       \/ /\ inflight' = Settle(req) (+)
                           SetToBag({[req EXCEPT !.resp = JsObject, !.matched = found]})
          /\ last' = EvR("process", req.data.content, req.url.id, items, "error", req)
          /\ UNCHANGED <<server, nextId, gone>>
    /\ UNCHANGED <<variant, phase, items, input, localStorage, adds, ops>>

(* The answer to a request arrives: x.json(), then setItems(body); the form *)
(* resets once the promise of an add has resolved.                          *)
Deliver(req) ==
    /\ BagIn(req, inflight)
    /\ req.resp # Pending
    /\ items' = IF phase = "mounted" THEN req.resp ELSE items
    /\ phase' = IF phase = "mounted" /\ RenderThrows(req.resp)
                THEN "crashed" ELSE phase
    /\ input' = IF req.method = "POST" THEN "" ELSE input
    /\ last' = EvR("deliver", req.data.content, req.url.id, items, "", req)
    /\ adds' = IF IsArray(req.resp) THEN adds ELSE <<>>
    /\ inflight' = Settle(req)
    /\ UNCHANGED <<variant, localStorage, server, nextId, gone, ops>>

(* The fetch of a request fails (the network, or a body that is no JSON):   *)
(* the promise rejects and no handler is attached to the rejection.         *)
NetFail(req) ==
    /\ BagIn(req, inflight)
    /\ inflight' = Settle(req)
    /\ last' = EvR("fail", req.data.content, req.url.id, items, "rejected", req)
    /\ adds' = <<>>
    /\ UNCHANGED <<variant, phase, items, input, localStorage, server, nextId, gone, ops>>

(* What the backend holds when the page opens. *)
InitialBackends == {<<>>, <<[id |-> 0, content |-> "a"]>>}

---------------------------------------------------------------------------
InitLocal ==
    /\ variant = "local"
    /\ \E e \in InitialEntries :
         localStorage = [data |-> [k \in Keys |-> IF k = ITEMS_STORAGE_KEY THEN e ELSE Absent],
                         setItemCalls |-> 0]
    /\ server = <<>> /\ nextId = 0

InitRemote ==
    /\ variant = "remote"
    /\ localStorage = [data |-> [k \in Keys |-> Absent], setItemCalls |-> 0]
    /\ server \in InitialBackends
    /\ nextId = Len(server)

Init ==
    /\ phase = "init"
    /\ items = Arr(<<>>)
    /\ input = ""
    /\ inflight = NoRequests
    /\ last = Ev("none", "", -1, Arr(<<>>), "")
    /\ adds = <<>>
    /\ gone = {}
    /\ ops = 0
    /\ (InitLocal \/ InitRemote)

Next ==
    \/ Mount
    \/ \E c \in Contents \cup {""} : Submit(c)
    \/ \E idx \in 0 .. LenLimit - 1 : Click(idx)
    \/ RMount
    \/ \E c \in Contents \cup {""} : RSubmit(c)
    \/ \E idx \in 0 .. LenLimit - 1 : RClick(idx)
    \/ \E req \in BagToSet(inflight) : ServerProcess(req)
    \/ \E req \in BagToSet(inflight) : Deliver(req)
    \/ \E req \in BagToSet(inflight) : NetFail(req)

Spec == Init /\ [][Next]_vars

NextCall ==
    \/ Next
    \/ \E c \in Contents \cup {""} : CallCreateItem(c)
    \/ \E i \in -1 .. LenLimit : CallDeleteItem(i)

CallSpec == Init /\ [][NextCall]_vars

---------------------------------------------------------------------------
(* Load operations called by themselves *)

(* A load that takes the entry out of the storage: getItem, then removeItem *)
CallLoadItemsRemoving ==
    /\ variant = "local" /\ phase # "init"
    /\ LET r == loadItems(NewStep(localStorage)) IN
         /\ last' = Ev("load", "", -1, items, IF r.threw THEN "SyntaxError" ELSE "")
         /\ localStorage' = [data |-> [NewStep(localStorage).data
                                         EXCEPT ![ITEMS_STORAGE_KEY] = Absent],
                             setItemCalls |-> 0]
    /\ UNCHANGED <<variant, phase, items, input, server, nextId, inflight, adds, gone, ops>>

(* loadItems() called once more, as every render of App does in           *)
(* useState(loadItems()): getItem and JSON.parse, nothing written.          *)
CallLoadItems ==
    /\ variant = "local" /\ phase # "init"
    /\ LET r == loadItems(NewStep(localStorage)) IN
         /\ last' = Ev("load", "", -1, items, IF r.threw THEN "SyntaxError" ELSE "")
         /\ localStorage' = NewStep(localStorage)
    /\ UNCHANGED <<variant, phase, items, input, server, nextId, inflight, adds, gone, ops>>

(* getItems() called with no other request outstanding, and the backend's   *)
(* answer to it: nothing is attached to the promise.                        *)
CallGetItems ==
    /\ variant = "remote" /\ phase # "init" /\ inflight = NoRequests
    /\ LET h == Handle(server, nextId, getItems) IN
         /\ server' = h.server
         /\ nextId' = h.nextId
         /\ last' = EvR("load", "", -1, items, "", [getItems EXCEPT !.resp = h.body])
    /\ UNCHANGED <<variant, phase, items, input, localStorage, inflight, adds, gone, ops>>

NextLoad ==
    \/ Next
    \/ CallLoadItems
    \/ CallGetItems

LoadSpec == Init /\ [][NextLoad]_vars

---------------------------------------------------------------------------

(* Runs in which every request is answered: no fetch fails. *)
NextAnswered ==
    \/ Mount
    \/ \E c \in Contents \cup {""} : Submit(c)
    \/ \E idx \in 0 .. LenLimit - 1 : Click(idx)
    \/ RMount
    \/ \E c \in Contents \cup {""} : RSubmit(c)
    \/ \E idx \in 0 .. LenLimit - 1 : RClick(idx)
    \/ \E req \in BagToSet(inflight) : ServerProcess(req)
    \/ \E req \in BagToSet(inflight) : Deliver(req)

AnsweredSpec == Init /\ [][NextAnswered]_vars

---------------------------------------------------------------------------

(* Two calls from one rendered snapshot *)

(* The updaters createItem and deleteItem pass to setItems: functions of no *)
(* parameter, closed over the `items` of the render that made them.         *)
CreateUpdater(snapshot, content) ==
    [kind |-> "create", snapshot |-> snapshot, content |-> content, itemIdx |-> -1]
DeleteUpdater(snapshot, itemIdx) ==
    [kind |-> "delete", snapshot |-> snapshot, content |-> "", itemIdx |-> itemIdx]

(* React calls an updater with the state the updaters before it have left;  *)
(* these updaters do not take it.                                           *)
ApplyUpdater(prev, u) ==
    IF u.kind = "create" THEN createItem(u.snapshot, u.content)
    ELSE deleteItem(u.snapshot, u.itemIdx)

(* The queued updaters applied in the order of the setItems calls. *)
RECURSIVE Flush(_, _)
Flush(prev, queue) ==
    IF queue = <<>> THEN prev
    ELSE Flush(ApplyUpdater(prev, Head(queue)), Tail(queue))

(* createItem called twice before App renders again. *)
CallCreateItemTwice(c1, c2) ==
    /\ variant = "local" /\ phase = "mounted"
    /\ ops + 2 <= MaxOps
    /\ Commit(Flush(items, <<CreateUpdater(items, c1), CreateUpdater(items, c2)>>))
    /\ last' = Ev("create2", c2, -1, items, "")
    /\ adds' = adds \o <<c1, c2>>
    /\ ops' = ops + 2
    /\ UNCHANGED <<variant, phase, input, server, nextId, inflight, gone>>

(* deleteItem called twice, for two rendered items, before App renders      *)
(* again.                                                                   *)
CallDeleteItemTwice(i, j) ==
    /\ variant = "local" /\ phase = "mounted"
    /\ i # j
    /\ \A idx \in {i, j} : \E e \in 1 .. Len(Items(items)) :
         Items(items)[e].tag = "Item" /\ Items(items)[e].arg = idx
    /\ ops + 2 <= MaxOps
    /\ Commit(Flush(items, <<DeleteUpdater(items, i), DeleteUpdater(items, j)>>))
    /\ last' = Ev("delete2", "", j, items, "")
    /\ adds' = <<>>
    /\ ops' = ops + 2
    /\ UNCHANGED <<variant, phase, input, server, nextId, inflight, gone>>

NextBatch ==
    \/ Next
    \/ \E c1, c2 \in Contents : CallCreateItemTwice(c1, c2)
    \/ \E i, j \in 0 .. LenLimit - 1 : CallDeleteItemTwice(i, j)

BatchSpec == Init /\ [][NextBatch]_vars

---------------------------------------------------------------------------

(* What load() returns in the state: loadItems() in the local variant, the *)
(* body the backend answers a GET with in the remote variant.              *)
Load ==
    IF variant = "local" THEN loadItems(localStorage).value
    ELSE Handle(server, nextId, getItems).body

Quiescent == inflight = NoRequests

Suffix(s, n) == SubSeq(s, Len(s) - n + 1, Len(s))
ContentsOf(s) == [i \in 1 .. Len(s) |-> s[i].content]
Distinct(s) == \A i, j \in 1 .. Len(s) : i # j => s[i] # s[j]
NonEmpty(s) == \A i \in 1 .. Len(s) : s[i] # ""
Count(s, x) == Cardinality({i \in 1 .. Len(s) : s[i] = x})
InRange(s, idx) == idx \in 0 .. Len(s) - 1

(* C1: after a run of adds with non-empty, pairwise distinct contents (each  *)
(* remote add issued with no other request outstanding and answered with    *)
(* the updated collection), load() returns a collection that ends with the  *)
(* added items, in the order of the calls; in the remote variant the        *)
(* displayed collection ends with them too.                                 *)
C1_AddsLoadedInCallOrder ==
    (phase = "mounted" /\ Quiescent /\ Distinct(adds) /\ NonEmpty(adds))
    => /\ IsArray(Load)
       /\ Len(Load.val) >= Len(adds)
       /\ ContentsOf(Suffix(Load.val, Len(adds))) = adds
       /\ (variant = "remote" /\ adds # <<>>) => items = Load

C1_Witness ==
    /\ variant = "local" /\ phase = "mounted"
    /\ Len(adds) = 2 /\ adds[1] # adds[2]
    /\ Len(last.before.val) = 2
    /\ Len(Load.val) = 3

C1_WitnessRemote ==
    /\ variant = "remote" /\ phase = "mounted" /\ Quiescent
    /\ Len(adds) = 2 /\ adds[1] # adds[2]
    /\ Len(server) = 3

(* C2: the displayed collection never diverges from the persisted one: in   *)
(* the local variant what loadItems reads back from the key "todo" is the  *)
(* displayed collection; in the remote variant, once a collection answered  *)
(* by the backend has been adopted and no request is outstanding, the       *)
(* displayed collection is the backend's collection.                        *)
C2_DisplayedIsPersisted ==
    /\ (variant = "local" /\ phase = "mounted")
         => (~loadItems(localStorage).threw /\ Load = items)
    /\ (variant = "remote" /\ phase = "mounted" /\ Quiescent
          /\ last.op = "deliver" /\ IsArray(items))
         => items = Load

IdsUnique(s) == \A i, j \in 1 .. Len(s) : i # j => s[i].id # s[j].id

(* C3: no two items of the displayed collection, nor of the collection      *)
(* load() returns, have the same id.                                        *)
C3_IdsUnique ==
    /\ (phase = "mounted" /\ IsArray(items)) => IdsUnique(items.val)
    /\ (phase = "mounted" /\ IsArray(Load)) => IdsUnique(Load.val)

(* C4: an add with empty content signals a CreationError, leaves the        *)
(* displayed collection as it was and writes nothing to the persistence     *)
(* backend.                                                                 *)
C4_EmptyAddRejected ==
    (last.op = "create" /\ last.content = "")
    => /\ last.err = "CreationError"
       /\ items = last.before
       /\ localStorage.setItemCalls = 0
       /\ Outstanding = last.nreq

(* C5: a delete of an item that exists, followed by load(): in the local    *)
(* variant the loaded collection holds the item that was at the index one   *)
(* time less than before; in the remote variant no collection the backend   *)
(* answers afterwards holds an id it has removed, and the collection        *)
(* adopted from the answer to the delete does not hold the deleted id.      *)
C5_DeletedItemNotLoaded ==
    /\ (variant = "local" /\ last.op = "delete" /\ InRange(last.before.val, last.arg))
         => LET it == last.before.val[last.arg + 1] IN
            /\ IsArray(Load)
            /\ Count(Load.val, it) = Count(last.before.val, it) - 1
    /\ variant = "remote"
         => /\ \A id \in gone : ~HasId(Load.val, id)
            /\ (last.op = "deliver" /\ last.req.method = "DELETE"
                  /\ last.req.matched /\ IsArray(last.req.resp) /\ phase = "mounted")
                 => ~HasId(items.val, last.req.url.id)

C5_Witness ==
    /\ variant = "local" /\ last.op = "delete"
    /\ Len(last.before.val) = 2 /\ last.arg = 0
    /\ Len(Load.val) = 1

C5_WitnessRemote ==
    /\ variant = "remote" /\ last.op = "deliver" /\ last.req.method = "DELETE"
    /\ last.req.matched /\ IsArray(last.req.resp) /\ phase = "mounted"
    /\ HasId(last.before.val, last.req.url.id)
    /\ gone # {}

Mutation(method) == method \in {"POST", "DELETE"}

(* C6: no partial failure. Remote: when the answer to an add or delete      *)
(* arrives, the displayed collection becomes the updated collection if the  *)
(* body is one, and stays exactly as it was otherwise (an error body); it   *)
(* stays as it was when the request fails. Local: after an add or delete    *)
(* the collection read back from storage is the displayed one.              *)
C6_NoPartialFailure ==
    /\ (variant = "remote" /\ last.op = "deliver" /\ Mutation(last.req.method)
          /\ IsArray(last.before))
         => IF IsArray(last.req.resp)
            THEN items = last.req.resp
            ELSE items = last.before
    /\ (variant = "remote" /\ last.op = "fail") => items = last.before
    /\ (variant = "local" /\ last.op \in {"create", "delete"})
         => (~loadItems(localStorage).threw /\ Load = items)

(* C7: loadItems never raises and always returns an array: mounting App     *)
(* succeeds whatever the key "todo" holds.                                  *)
C7_LoadNeverRaises ==
    (variant = "local" /\ last.op = "mount")
    => (last.err = "" /\ phase = "mounted" /\ IsArray(items))

(* C8: remote variant: when the answer to a delete whose id matched no item *)
(* of the backend's collection arrives, an error is signalled.              *)
C8_NoMatchDeleteSignalsError ==
    (variant = "remote" /\ last.op = "deliver" /\ last.req.method = "DELETE"
       /\ ~last.req.matched)
    => last.err # ""

(* C9: local variant: deleteItem with an index that addresses no item of    *)
(* the collection leaves the collection as it was and signals no error.     *)
C9_OutOfRangeDeleteIsNoOp ==
    (variant = "local" /\ last.op = "delete" /\ ~InRange(last.before.val, last.arg))
    => (items = last.before /\ Load = last.before /\ last.err = "")

(* The persistence writes the last step started: setItem calls in the local *)
(* variant, POST and DELETE requests issued in the remote variant.          *)
StepWrites ==
    IF variant = "local" THEN localStorage.setItemCalls
    ELSE IF Outstanding > last.nreq /\ Mutation(last.req.method)
    THEN Outstanding - last.nreq
    ELSE 0

NoRetry ==
    variant = "remote" =>
      /\ last.op \in {"deliver", "fail"} => Outstanding = last.nreq - 1
      /\ last.op = "process" => Outstanding = last.nreq
      /\ last.op \in {"create", "delete"} => Outstanding = last.nreq + 1

(* C10 as stated: each add and each delete starts exactly one persistence   *)
(* write, no other step starts one, and a settled request is not reissued.  *)
C10_OneWritePerMutationOnly ==
    /\ last.op \in {"create", "delete"} => StepWrites = 1
    /\ last.op \notin {"create", "delete"} => StepWrites = 0
    /\ NoRetry

(* C10 as amended: each add and each delete starts exactly one persistence  *)
(* write; the only other write is the one the local variant's save effect   *)
(* makes when App has mounted; a settled request is not reissued.           *)
C10_OneWritePerMutationOrMount ==
    /\ last.op \in {"create", "delete"} => StepWrites = 1
    /\ (variant = "local" /\ last.op = "mount")
         => StepWrites = (IF phase = "mounted" THEN 1 ELSE 0)
    /\ (last.op \notin {"create", "delete"} /\ ~(variant = "local" /\ last.op = "mount"))
         => StepWrites = 0
    /\ NoRetry

C10_Witness ==
    /\ variant = "local" /\ last.op = "delete" /\ ops = 2
    /\ localStorage.setItemCalls = 1

C10_WitnessRemote ==
    /\ variant = "remote" /\ last.op = "fail" /\ Mutation(last.req.method)
    /\ Outstanding = 1

(* C11: remote variant, no optimistic update: the step that issues an add   *)
(* or a delete, and the backend's handling of a request, leave the          *)
(* displayed collection as it was; when the answer to a request arrives at  *)
(* the mounted page, the displayed collection becomes exactly the body the  *)
(* backend answered.                                                        *)
C11_NoOptimisticUpdate ==
    variant = "remote" =>
      /\ last.op \in {"create", "delete", "process"} => items = last.before
      /\ (last.op = "deliver" /\ IsArray(last.before)) => items = last.req.resp

C11_Witness ==
    /\ variant = "remote" /\ last.op = "deliver" /\ last.req.method = "POST"
    /\ IsArray(last.before) /\ IsArray(items)
    /\ Len(last.before.val) = 1 /\ Len(items.val) = 2

C11_WitnessIssued ==
    /\ variant = "remote" /\ last.op = "create" /\ Outstanding = 1
    /\ items = last.before /\ Len(items.val) = 1

RemoveAt(s, i) == SubSeq(s, 1, i - 1) \o SubSeq(s, i + 1, Len(s))

(* C12: local variant: deleteItem with the index of an item of the          *)
(* collection removes exactly that item: the new collection, which is also  *)
(* the one read back from storage, is one shorter and holds the other items *)
(* in their order.                                                          *)
C12_DeleteRemovesTheAddressedItem ==
    (variant = "local" /\ last.op = "delete" /\ InRange(last.before.val, last.arg))
    => /\ IsArray(items)
       /\ Len(items.val) = Len(last.before.val) - 1
       /\ items.val = RemoveAt(last.before.val, last.arg + 1)
       /\ Load = items

C12_Witness ==
    /\ variant = "local" /\ last.op = "delete" /\ last.arg = 1
    /\ Len(last.before.val) = 3
    /\ items.val = <<last.before.val[1], last.before.val[3]>>

C12_WitnessFirstOfTwo ==
    /\ variant = "local" /\ last.op = "delete" /\ last.arg = 0
    /\ Len(last.before.val) = 2
    /\ items.val = <<last.before.val[2]>>

Last(s) == s[Len(s)]

(* C13: round trip: after an add of a non-empty content x, load() returns a *)
(* collection one longer than the collection before, whose last element has *)
(* content x; when the collection before was empty, the loaded collection   *)
(* is the single item of content x with the id given to it. (Remote: the    *)
(* step is the backend's handling of the POST.)                             *)
C13_AddThenLoad ==
    /\ (variant = "local" /\ last.op = "create" /\ last.content # "")
         => /\ ~loadItems(localStorage).threw
            /\ IsArray(Load)
            /\ Len(Load.val) = Len(last.before.val) + 1
            /\ Last(Load.val).content = last.content
            /\ last.before.val = <<>>
                 => Load.val = <<[id |-> ItemId(0), content |-> last.content]>>
    /\ (variant = "remote" /\ last.op = "process" /\ last.req.method = "POST"
          /\ last.err = "" /\ last.content # "")
         => /\ IsArray(Load)
            /\ Load.val # <<>>
            /\ Last(Load.val).content = last.content

C13_Witness ==
    /\ variant = "local" /\ last.op = "create" /\ last.content = "b"
    /\ last.before.val = <<>>
    /\ getItem(localStorage, ITEMS_STORAGE_KEY).text
         = <<Tok("["), ObjTok([id |-> ItemId(0), content |-> "b"]), Tok("]")>>
    /\ Load.val = <<[id |-> ItemId(0), content |-> "b"]>>

C13_WitnessLonger ==
    /\ variant = "local" /\ last.op = "create" /\ last.content = "a"
    /\ Len(last.before.val) = 2
    /\ Len(Load.val) = 3 /\ Last(Load.val).content = "a"

LoadThrows == variant = "local" /\ loadItems(localStorage).threw

(* C14: load is idempotent: a step that is a load() leaves the persisted    *)
(* collection and the displayed collection as they were, and the load()     *)
(* after it returns what the load() before it returned (the same            *)
(* collection, or the same failure).                                        *)
C14_LoadIdempotent ==
    [][last'.op = "load"
         => /\ Load' = Load
            /\ LoadThrows' = LoadThrows
            /\ items' = items
            /\ localStorage'.data = localStorage.data
            /\ server' = server
            /\ (variant = "remote" => last'.req.resp = Load)]_vars

C14_Witness ==
    /\ variant = "local" /\ last.op = "load" /\ phase = "mounted" /\ ops = 2
    /\ IsArray(Load) /\ Len(Load.val) = 2 /\ items = Load

C14_WitnessRemote ==
    /\ variant = "remote" /\ last.op = "load" /\ ops = 1
    /\ last.req.resp = Load /\ Len(Load.val) = 1

(* C15: local variant: createItem and deleteItem never change the           *)
(* collection in place: the array the previous render holds has, after the  *)
(* call, the items it had before in the same order, and the collection      *)
(* passed to setItems is another array than that one.                       *)
C15_NoInPlaceMutation ==
    [][(variant = "local" /\ last'.op \in {"create", "delete"})
         => /\ last'.before = items
            /\ LET run == IF last'.op = "create"
                          THEN createItemRun(items, last'.content)
                          ELSE deleteItemRun(items, last'.arg)
               IN  /\ run.ret # ItemsRef
                   /\ items' = Arr(run.heap[run.ret])]_vars

C15_Witness ==
    /\ variant = "local" /\ last.op = "delete" /\ last.arg = 1
    /\ Len(last.before.val) = 2
    /\ items.val = <<last.before.val[1]>>

C15_WitnessCreate ==
    /\ variant = "local" /\ last.op = "create"
    /\ Len(last.before.val) = 1 /\ Len(items.val) = 2
    /\ items.val[1] = last.before.val[1]

(* C16: local variant: createItem called on a collection of n items gives   *)
(* the new item the id "item-n" and appends it as the last element, the n   *)
(* items before it unchanged.                                               *)
C16_IdFromLength ==
    (variant = "local" /\ last.op = "create")
    => LET n == Len(last.before.val) IN
       /\ IsArray(items)
       /\ Len(items.val) = n + 1
       /\ SubSeq(items.val, 1, n) = last.before.val
       /\ items.val[n + 1] = [id |-> "item-" \o ToString(n), content |-> last.content]

C16_Witness ==
    /\ variant = "local" /\ last.op = "create"
    /\ Len(last.before.val) = 2
    /\ items.val[3].id = "item-2"

C16_WitnessAfterDelete ==
    /\ variant = "local" /\ last.op = "create"
    /\ Len(last.before.val) = 1 /\ last.before.val[1].id = "item-1"
    /\ items.val[2].id = "item-1"

(* What the page shows of the collection. *)
Rendered == IF variant = "local" THEN Items(items) ELSE RItems(items)

(* C17: on the mounted page the placeholder "No items added yet, try adding *)
(* some." is shown exactly when the displayed collection is empty;          *)
(* otherwise one Item is rendered per element, in the order of the          *)
(* collection, its delete icon addressing that element; an add appends and  *)
(* a delete removes the addressed element whether or not the collection     *)
(* was, or becomes, empty.                                                  *)
C17_PlaceholderIffEmpty ==
    phase = "mounted" =>
      /\ IsArray(items)
      /\ (\E i \in 1 .. Len(Rendered) : Rendered[i] = Placeholder) <=> items.val = <<>>
      /\ items.val = <<>> => Rendered = <<Placeholder>>
      /\ items.val # <<>> =>
           /\ Len(Rendered) = Len(items.val)
           /\ \A i \in 1 .. Len(items.val) :
                /\ Rendered[i].tag = "Item"
                /\ Rendered[i].item = items.val[i]
                /\ Rendered[i].text = items.val[i].content
                /\ Rendered[i].arg = (IF variant = "local" THEN i - 1 ELSE items.val[i].id)
      /\ (variant = "local" /\ last.op = "create")
           => /\ items.val = Append(last.before.val, Last(items.val))
              /\ Last(items.val).content = last.content
      /\ (variant = "local" /\ last.op = "delete" /\ InRange(last.before.val, last.arg))
           => items.val = RemoveAt(last.before.val, last.arg + 1)

C17_Witness ==
    /\ variant = "local" /\ phase = "mounted" /\ last.op = "delete"
    /\ Len(last.before.val) = 1 /\ ops = 2
    /\ Rendered = <<Placeholder>>

C17_WitnessList ==
    /\ variant = "remote" /\ phase = "mounted" /\ last.op = "deliver"
    /\ last.before.val = <<>>
    /\ Len(Rendered) = 2 /\ Rendered[2].text = "b"

(* C18: remote variant, every request answered: once the answer to the last *)
(* outstanding request has arrived, the displayed collection is the         *)
(* backend's current collection, in whatever order the answers arrived.     *)
C18_AnsweredDisplayIsBackend ==
    (variant = "remote" /\ phase = "mounted" /\ last.op = "deliver" /\ Quiescent)
    => items = Arr(server)

(* C19: local variant, no lost update: after two createItem calls from one  *)
(* rendered snapshot the collection is two items longer and ends with the   *)
(* two contents in call order; after two deleteItem calls for two items of  *)
(* the snapshot it is two items shorter.                                    *)
C19_BothCallsTakeEffect ==
    /\ (variant = "local" /\ last.op = "create2")
         => /\ Len(items.val) = Len(last.before.val) + 2
            /\ ContentsOf(Suffix(items.val, 2)) = Suffix(adds, 2)
    /\ (variant = "local" /\ last.op = "delete2")
         => Len(items.val) = Len(last.before.val) - 2

(* C20: remote AddItemForm: a step resets the form input only when it is    *)
(* the arrival of the answer to an add, that answer being the collection    *)
(* the page then displays; a step in which an add fails (the fetch rejects, *)
(* or the answer is an error body) leaves the input as it was.              *)
C20_ResetOnlyAfterAdoptedAnswer ==
    [][variant = "remote" =>
         /\ (input # "" /\ input' = "")
              => /\ last'.op = "deliver" /\ last'.req.method = "POST"
                 /\ items' = last'.req.resp
         /\ (last'.op = "fail" /\ last'.req.method = "POST") => input' = input
         /\ (last'.op = "deliver" /\ last'.req.method = "POST"
               /\ ~IsArray(last'.req.resp)) => input' = input]_vars

(* C21: local startup: mounting App leaves the persisted collection as it   *)
(* was, as a collection: what loadItems returns after the mount is what it  *)
(* returned before (or it throws as before); when App has mounted, the save *)
(* effect has written once, the text of exactly the collection loadItems    *)
(* returned, which is also the displayed one (an absent key now holds the   *)
(* text of the empty array).                                                *)
C21_MountWritesBackWhatWasLoaded ==
    [][(variant = "local" /\ last'.op = "mount")
         => /\ loadItems(localStorage').value = loadItems(localStorage).value
            /\ loadItems(localStorage').threw = loadItems(localStorage).threw
            /\ phase' = "mounted"
                 => /\ localStorage'.setItemCalls = 1
                    /\ getItem(localStorage', ITEMS_STORAGE_KEY)
                         = Stored(JSONstringify(loadItems(localStorage).value))
                    /\ items' = loadItems(localStorage).value
            /\ phase' # "mounted"
                 => /\ localStorage'.setItemCalls = 0
                    /\ localStorage'.data = localStorage.data]_vars

C21_Witness ==
    /\ variant = "local" /\ last.op = "mount" /\ phase = "mounted"
    /\ localStorage.setItemCalls = 1
    /\ Len(loadItems(localStorage).value.val) = 2
    /\ items = loadItems(localStorage).value

C21_WitnessEmpty ==
    /\ variant = "local" /\ last.op = "mount" /\ phase = "mounted"
    /\ getItem(localStorage, ITEMS_STORAGE_KEY) = Stored(<<Tok("["), Tok("]")>>)
    /\ items = Arr(<<>>)

====
